---------------------------- MODULE Spec2Model ----------------------------
(***************************************************************************)
(* A state-machine model of src/lunarlander.py: the Double-DQN episode     *)
(* loop (main / model_infer), the reward-shaping window (short_memory,     *)
(* affect_short_mem, send_short_to_long_mem), the replay store (actor_mem),*)
(* the exploration policy (greedy_epsilon.choose as called by              *)
(* CustomDQN.forward), the training step (try_learning / model_train) and  *)
(* the target synchronisation (model_adjuster.soft_hard_copy).             *)
(*                                                                         *)
(* Numbers.  Rewards are floating point in the program; here a stored      *)
(* reward is an integer count of 1/RScale reward units, RScale being the   *)
(* least common multiple of the divisors reward/(i+1) can use, so every    *)
(* division of the shaping rule is exact.  Epsilon is an integer count of  *)
(* 1/EpsOne.  Network parameters are one integer per network, in units     *)
(* fine enough for the soft update to be exact.  The network's outputs,    *)
(* the gradient and the environment are opaque: their results are drawn    *)
(* from small sets.  Observations are tokens numbered in the order the     *)
(* environment returned them.                                              *)
(*                                                                         *)
(* utils/memory_stack.py (MemoryStack) and utils/dqn_utils.py              *)
(* (GreedyEpsilon, ModelAdjuster) are imported by the program but are not  *)
(* among the source files; choose, push, sample and soft_hard_copy are     *)
(* modelled from the specification's sections 3, 4.1, 4.3 and 4.4.         *)
(***************************************************************************)
EXTENDS Integers, Sequences, FiniteSets, TLC

VARIABLES
    DISABLE_RANDOM,     \* line 70, fixed for a run
    SAVING_ENABLED,     \* line 71, fixed for a run
    LEARNING_ENABLED,   \* line 72, fixed for a run
    pc,                 \* position of the single control thread
    step,               \* global step counter (line 34)
    eps,                \* global epsilon (line 74), in 1/EpsOne
    explore,            \* forward's local: what choose returned last (line 148)
    noised,             \* forward replaced the action values by noise (line 150)
    max_a,              \* model_infer's local: the chosen action (line 281)
    reward,             \* model_infer's local: the raw reward of env.step (line 283)
    terminated,         \* model_infer's local (line 283)
    truncated,          \* model_infer's local (line 283)
    done,               \* model_infer's local (lines 267, 294)
    state_tensor,       \* model_infer's local (line 270)
    env_obs,            \* the environment: number of observations returned so far
    next_obs,           \* global (lines 247, 283, 292, 399)
    obs_stack,          \* global deque(maxlen=INPUT_N_STATES) (line 245)
    next_state_tensor,  \* global (lines 253, 305, 410)
    episode,            \* main's loop variable (line 414)
    short_memory,       \* the reward-shaping window (line 204)
    actor_mem,          \* the replay store's memory (line 184)
    transitions,        \* model_train's local: the sampled batch (line 335)
    actor_pred_max_a,   \* model_train's local (line 360)
    target_output,      \* model_train's local (line 367)
    actor_params,       \* parameters of actor_model (line 168)
    pred_params,        \* parameters of pred_model (line 172)
    saved,              \* model files written by torch.save (line 201)
    choose_calls,       \* history: number of calls of greedy_epsilon.choose
    real_reward,        \* history: the records handed to admission (line 237 logs each)
    created,            \* history: the records appended to short_memory (line 311)
    shape_entry,        \* history: the window and the length of the real-reward
                        \* log as the last call of affect_short_mem found them
    sync_log,           \* history: the calls of soft_hard_copy, each with its
                        \* step argument and the updates it applied
    env_log,            \* history: the raw reward of each call of env.step and
                        \* whether it ended the episode
    trace               \* history: the operations of the current iteration of
                        \* model_infer's loop, in the order they ran

vars == <<DISABLE_RANDOM, SAVING_ENABLED, LEARNING_ENABLED, pc, step, eps,
          explore, noised, max_a, reward, terminated, truncated, done,
          state_tensor, env_obs, next_obs, obs_stack, next_state_tensor,
          episode, short_memory, actor_mem, transitions, actor_pred_max_a,
          target_output, actor_params, pred_params, saved, choose_calls, real_reward, created,
          shape_entry, sync_log, env_log, trace>>

cfgVars == <<DISABLE_RANDOM, SAVING_ENABLED, LEARNING_ENABLED>>
histVars == <<choose_calls, real_reward, created, shape_entry, sync_log,
              env_log>>
obsVars == <<env_obs, next_obs, obs_stack, next_state_tensor>>
netVars == <<actor_params, pred_params>>
stepLocals == <<max_a, reward, terminated, truncated, done, state_tensor>>
trainLocals == <<transitions, actor_pred_max_a, target_output>>

---------------------------------------------------------------------------
(* Arithmetic helpers *)

Max(a, b) == IF a >= b THEN a ELSE b

Min(a, b) == IF a <= b THEN a ELSE b

Abs(x) == IF x < 0 THEN -x ELSE x

RECURSIVE Gcd(_, _)
Gcd(a, b) == IF b = 0 THEN a ELSE Gcd(b, a % b)

RECURSIVE LcmUpTo(_)
LcmUpTo(n) == IF n <= 1 THEN 1 ELSE LET l == LcmUpTo(n - 1) IN (l * n) \div Gcd(l, n)

RECURSIVE Pow(_, _)
Pow(b, e) == IF e = 0 THEN 1 ELSE b * Pow(b, e - 1)

None == << >>               \* real_actions=None: no batch of actions is supplied

---------------------------------------------------------------------------
(* Bounds of the model, and the program's configuration scaled to them *)

MaxSteps == 4               \* environment steps explored
NumActions == 2             \* env.action_space.n
INPUT_N_STATES == 2         \* line 42 (4 in the program)
BATCH_SIZE == 1             \* line 41 (64 in the program)
Capacity == 3               \* line 184 (1000000 in the program)
TRAIN_INTERVAL == 2         \* line 44 (1 in the program)
SAVE_INTERVAL == 2          \* line 45 (5000 in the program)
EPISODES_PER_EPOCH == 2     \* line 48 (1 in the program)
SOFT_COPY_INTERVAL == 1     \* line 53 (1 in the program)
HARD_COPY_INTERVAL == 3     \* line 54 (10000 in the program)
TAU_NUM == 1                \* line 57: TAU = TAU_NUM / TAU_DEN (0.0001 in the program)
TAU_DEN == 2
REWARD_AFFECT_PAST_N == 2   \* line 65 (10 in the program)
EpsOne == 2                 \* epsilon 1.0 in model units
EPS_START == 6              \* line 74 (eps = 2 in the program)
EPS_DECAY == 1              \* line 75 (0.001 in the program)
MIN_EPS == 1                \* line 76 (0.05 in the program)

(* Program constants kept at the program's values *)
THRESH_LOW == -5            \* REWARD_AFFECT_THRESH[0], line 66
THRESH_HIGH == 5            \* REWARD_AFFECT_THRESH[1], line 66
MEMORY_REWARD_THRESH == 0   \* line 68
load_step == 0              \* line 31

RScale == LcmUpTo(REWARD_AFFECT_PAST_N + 1)
ParamUnit == Pow(TAU_DEN, MaxSteps + 1)

Actions == 0 .. (NumActions - 1)
\* Raw rewards of env.step: one below the low threshold, one inside the
\* thresholds that admission discards, the high threshold itself, one above it
Rewards == {THRESH_LOW - 1, 0, THRESH_HIGH, THRESH_HIGH + 1}
Samples == 0 .. (EpsOne - 1)        \* a uniform draw in [0, 1)
Gradients == {-ParamUnit, ParamUnit}

\* The arg-max of the action values model_infer acts on.  The network's
\* outputs and the noise are opaque, and no branch of the program reads the
\* chosen action: the arg-max cycles through the actions, so that
\* consecutive records differ in their action.
InferArgmax(s) == s % NumActions


---------------------------------------------------------------------------
(* The exploration policy: GreedyEpsilon.choose (utils/dqn_utils.py)       *)

\* choose without the floor at MIN_EPS (mutant of choose)
choose_NoFloor(epsilon, sample) ==
    IF DISABLE_RANDOM
    THEN [explore |-> FALSE, eps |-> epsilon]
    ELSE [explore |-> sample < epsilon, eps |-> epsilon - EPS_DECAY]

\* choose(epsilon) -> (explore, next_epsilon); sample is the uniform draw.
choose(epsilon, sample) ==
    IF DISABLE_RANDOM
    THEN [explore |-> FALSE, eps |-> epsilon]
    ELSE [explore |-> sample < epsilon,
          eps |-> Max(MIN_EPS, epsilon - EPS_DECAY)]

\* forward replacing the action values by noise whenever choose says
\* explore, in training too (mutant of forward)
forward_NoiseInTraining(epsilon, real_actions, training, sample, argmax_a) ==
    LET c == choose(epsilon, sample)
        chosen == IF real_actions # None THEN real_actions ELSE argmax_a
    IN  [eps |-> c.eps, explore |-> c.explore, noised |-> c.explore,
         argmax |-> argmax_a, chosen_actions |-> chosen]

\* CustomDQN.forward: one call of choose per call of forward, whatever the
\* training flag; the action values are replaced by noise only when not
\* training and choose says explore; the next-state head uses real_actions
\* when given, the arg-max of the action values otherwise.  argmax_a is the
\* arg-max of the (possibly noised) action values.
forward(epsilon, real_actions, training, sample, argmax_a) ==
    LET c == choose(epsilon, sample)
        is_noise == (~training) /\ c.explore
        chosen == IF real_actions # None THEN real_actions ELSE argmax_a
    IN  [eps |-> c.eps, explore |-> c.explore, noised |-> is_noise,
         argmax |-> argmax_a, chosen_actions |-> chosen]

---------------------------------------------------------------------------
(* The replay store: MemoryStack (utils/memory_stack.py)                   *)

\* push that never evicts (mutant of push)
push_NoEvict(mem, t) == Append(mem, t)

\* push: append; at capacity the oldest entry is evicted.
push(mem, t) ==
    IF Len(mem) >= Capacity THEN Append(Tail(mem), t) ELSE Append(mem, t)

\* sample(k): k entries drawn uniformly, with replacement.
SampleSet(mem, k) == { [i \in 1 .. k |-> mem[f[i]]] : f \in [1 .. k -> 1 .. Len(mem)] }

---------------------------------------------------------------------------
(* The reward-shaping window                                               *)

\* the admission test with >= for > (mutant of Admit)
Admit_NonStrict(t) == Abs(t.reward) >= MEMORY_REWARD_THRESH * RScale

\* line 240: the admission test of a flushed record
Admit(t) == Abs(t.reward) > MEMORY_REWARD_THRESH * RScale

\* lines 232-241: pop the n oldest records of sm, log each as real reward,
\* push each admitted one to the replay store.
RECURSIVE send_short_to_long_mem(_, _, _, _)
send_short_to_long_mem(n, sm, mem, log) ==
    IF n = 0
    THEN [short_memory |-> sm, actor_mem |-> mem, real_reward |-> log]
    ELSE LET short_mem == Head(sm)
         IN  send_short_to_long_mem(n - 1, Tail(sm),
                 IF Admit(short_mem) THEN push(mem, short_mem) ELSE mem,
                 Append(log, short_mem))

\* the eviction test with >= for > (mutant of WindowFull)
WindowFull_AtN(sm) == Len(sm) >= REWARD_AFFECT_PAST_N

\* the eviction test one record late (mutant of WindowFull)
WindowFull_Late(sm) == Len(sm) > REWARD_AFFECT_PAST_N + 1

\* line 216: is the window long enough to force its oldest record out
WindowFull(sm) == Len(sm) > REWARD_AFFECT_PAST_N

\* line 221: does the raw reward r propagate to the window
Propagates(r) == r < THRESH_LOW \/ r > THRESH_HIGH

\* the shaping rule indexing from the oldest record, short_memory[i] for
\* short_memory[-(i + 1)] (mutant of ShapeRewards)
ShapeRewards_ByAge(sm, r) ==
    [k \in 1 .. Len(sm) |-> [sm[k] EXCEPT !.reward = @ + ((r * RScale) \div k)]]

\* the shaping written to the action, field 1, for the reward, field 3
\* (mutant of ShapeRewards)
ShapeRewards_WrongField(sm, r) ==
    [k \in 1 .. Len(sm) |-> [sm[k] EXCEPT !.action = (@ + 1) % NumActions]]

\* lines 222-223: short_memory[-(i + 1)][3] += reward / (i + 1)
ShapeRewards(sm, r) ==
    [k \in 1 .. Len(sm) |->
        [sm[k] EXCEPT !.reward = @ + ((r * RScale) \div (Len(sm) - k + 1))]]

\* the shaping applied before the eviction, to the record about to leave as
\* well (mutant of affect_short_mem)
affect_short_mem_ShapeFirst(r, sm, mem, log) ==
    LET shaped == IF Propagates(r) THEN ShapeRewards(sm, r) ELSE sm
    IN  IF WindowFull(shaped)
        THEN send_short_to_long_mem(1, shaped, mem, log)
        ELSE [short_memory |-> shaped, actor_mem |-> mem, real_reward |-> log]

\* lines 206-223
affect_short_mem(r, sm, mem, log) ==
    LET s1 == IF WindowFull(sm)
              THEN send_short_to_long_mem(1, sm, mem, log)
              ELSE [short_memory |-> sm, actor_mem |-> mem, real_reward |-> log]
    IN  IF Propagates(r)
        THEN [s1 EXCEPT !.short_memory = ShapeRewards(s1.short_memory, r)]
        ELSE s1

---------------------------------------------------------------------------
(* Observations                                                            *)

\* deque(maxlen=INPUT_N_STATES).append
DequeAppend(stack, o) ==
    IF Len(stack) >= INPUT_N_STATES THEN Append(Tail(stack), o) ELSE Append(stack, o)

\* lines 250-251, 407-408: a stack filled with one observation
FilledStack(o) == [i \in 1 .. INPUT_N_STATES |-> o]

---------------------------------------------------------------------------
(* Training and synchronisation                                            *)

\* the guard without the size test (mutant of ShouldTrain)
ShouldTrain_NoSize(mem, s) == s % TRAIN_INTERVAL = 0

\* lines 194-195: the guard of model_train in try_learning
ShouldTrain(mem, s) == Len(mem) > BATCH_SIZE /\ s % TRAIN_INTERVAL = 0

\* line 200
ShouldSave(s) == s % SAVE_INTERVAL = 0 /\ SAVING_ENABLED

\* an optimizer stepping both networks (mutant of OptimizerStep)
OptimizerStep_Both(actor, pred, g) == [actor |-> actor + g, pred |-> pred + g]

\* lines 373-382: the optimizer was built on actor_model.parameters() (line
\* 176); a step moves those parameters by the (clipped) gradient g.
OptimizerStep(actor, pred, g) == [actor |-> actor + g, pred |-> pred]

\* An action value of a network: the networks are opaque, a value is named
\* by the network, its parameters, the state and the action it is read at.
QValue(net, params, s, a) == [net |-> net, params |-> params, state |-> s, action |-> a]

\* the gather index taken from the target network's own arg-max (mutant of
\* GatherIndex)
GatherIndex_Own(actor_max_a, pred_max_a) == pred_max_a

\* line 364: pred_out.gather(1, actor_pred_max_a.unsqueeze(1)) reads the
\* target network's output at the online network's arg-max
GatherIndex(actor_max_a, pred_max_a) == actor_max_a

\* line 367: reward_batch + next_state_actions * GAMMA, kept as the pair
\* of the reward and the discounted value
TargetOutput(reward_batch, next_state_actions) ==
    [i \in 1 .. BATCH_SIZE |->
        [reward |-> reward_batch[i], discounted |-> next_state_actions[i]]]

\* the soft update skipped on the steps of the hard copy (mutant of
\* SoftFires)
SoftFires_Exclusive(s) ==
    s % SOFT_COPY_INTERVAL = 0 /\ s % HARD_COPY_INTERVAL # 0

\* ModelAdjuster: the check of the soft update
SoftFires(s) == s % SOFT_COPY_INTERVAL = 0

\* ModelAdjuster: the check of the hard copy
HardFires(s) == s % HARD_COPY_INTERVAL = 0

\* ModelAdjuster: the soft update of one target parameter
SoftUpdate(actor, pred) == pred + ((TAU_NUM * (actor - pred)) \div TAU_DEN)

\* the soft blend winning over the hard copy on a step where both fire
\* (mutant of soft_hard_copy)
soft_hard_copy_SoftWins(s, actor, pred) ==
    IF SoftFires(s) THEN SoftUpdate(actor, pred)
    ELSE IF HardFires(s) THEN actor ELSE pred

\* ModelAdjuster.soft_hard_copy(step, actor_model, pred_model): the soft
\* blend, then the hard copy.
soft_hard_copy(s, actor, pred) ==
    LET soft == IF SoftFires(s) THEN SoftUpdate(actor, pred) ELSE pred
    IN  IF HardFires(s) THEN actor ELSE soft


---------------------------------------------------------------------------
(* The program: start-up, main, model_infer, try_learning, model_train     *)

\* Module level, lines 31-34, 74, 168-184, 204, 245-253
Start ==
    /\ pc = "main"
    /\ step = load_step
    /\ eps = EPS_START
    /\ explore = FALSE
    /\ noised = FALSE
    /\ max_a = 0
    /\ reward = 0
    /\ terminated = FALSE
    /\ truncated = FALSE
    /\ done = FALSE
    /\ state_tensor = << >>
    /\ env_obs = 1
    /\ next_obs = 1
    /\ obs_stack = FilledStack(1)
    /\ next_state_tensor = FilledStack(1)
    /\ episode = 0
    /\ short_memory = << >>
    /\ actor_mem = << >>
    /\ transitions = << >>
    /\ actor_pred_max_a = << >>
    /\ target_output = << >>
    /\ actor_params = 0
    /\ pred_params = 0
    /\ saved = {}
    /\ choose_calls = 0
    /\ real_reward = << >>
    /\ created = << >>
    /\ shape_entry = [window |-> << >>, logged |-> 0]
    /\ sync_log = << >>
    /\ env_log = << >>
    /\ trace = << >>

\* The flags as the program sets them, lines 70-72
Init ==
    /\ DISABLE_RANDOM = FALSE
    /\ SAVING_ENABLED = TRUE
    /\ LEARNING_ENABLED = TRUE
    /\ Start

\* The program with exploration enabled or disabled
InitRandom ==
    /\ DISABLE_RANDOM \in BOOLEAN
    /\ SAVING_ENABLED = TRUE
    /\ LEARNING_ENABLED = TRUE
    /\ Start

\* The program with learning enabled or disabled
InitLearning ==
    /\ DISABLE_RANDOM = FALSE
    /\ SAVING_ENABLED = TRUE
    /\ LEARNING_ENABLED \in BOOLEAN
    /\ Start

\* Any setting of the three flags
InitConfig ==
    /\ DISABLE_RANDOM \in BOOLEAN
    /\ SAVING_ENABLED \in BOOLEAN
    /\ LEARNING_ENABLED \in BOOLEAN
    /\ Start

\* main, lines 391-414: one epoch begins; the environment is reset and the
\* observation stack re-initialised.
Main ==
    /\ pc = "main"
    /\ step < MaxSteps
    /\ env_obs' = env_obs + 1
    /\ next_obs' = env_obs + 1
    /\ obs_stack' = FilledStack(env_obs + 1)
    /\ next_state_tensor' = FilledStack(env_obs + 1)
    /\ episode' = 0
    /\ pc' = "infer"
    /\ UNCHANGED <<trace, cfgVars, histVars, netVars, stepLocals, step, eps,
                   explore, noised, short_memory, actor_mem, trainLocals,
                   saved>>

\* model_infer, lines 267-268: an episode begins.
ModelInferBegin ==
    /\ pc = "infer"
    /\ done' = FALSE
    /\ pc' = "forward"
    /\ UNCHANGED <<trace, cfgVars, histVars, netVars, obsVars, max_a, reward,
                   terminated, truncated, state_tensor, step, eps, explore,
                   noised, episode, short_memory, actor_mem, trainLocals,
                   saved>>

\* model_infer, lines 270-281: the action is selected by one forward call.
InferForward ==
    /\ pc = "forward"
    /\ step < MaxSteps
    /\ \E sample \in Samples :
          LET f == forward(eps, None, FALSE, sample, <<InferArgmax(step)>>)
          IN  /\ eps' = f.eps
              /\ explore' = f.explore
              /\ noised' = f.noised
              /\ max_a' = f.argmax[1]
    /\ state_tensor' = next_state_tensor
    /\ choose_calls' = choose_calls + 1
    /\ trace' = <<"forward">>
    /\ pc' = "env"
    /\ UNCHANGED <<env_log, sync_log, cfgVars, netVars, obsVars, reward,
                   terminated, truncated, done, step, episode, short_memory,
                   actor_mem, trainLocals, saved, real_reward, created,
                   shape_entry>>

\* model_infer, lines 283-294: the environment steps; at an episode end it
\* is reset and next_obs is the reset observation.
EnvStep ==
    /\ pc = "env"
    /\ \E r \in Rewards, term \in BOOLEAN, trunc \in BOOLEAN :
          /\ reward' = r
          /\ env_log' = Append(env_log, [reward |-> r, done |-> term \/ trunc])
          /\ terminated' = term
          /\ truncated' = trunc
          /\ IF term \/ trunc
             THEN /\ env_obs' = env_obs + 2
                  /\ next_obs' = env_obs + 2
                  /\ done' = TRUE
             ELSE /\ env_obs' = env_obs + 1
                  /\ next_obs' = env_obs + 1
                  /\ done' = done
    /\ explore' = FALSE
    /\ noised' = FALSE
    /\ trace' = Append(trace, "env_step")
    /\ pc' = "shape"
    /\ UNCHANGED <<cfgVars, choose_calls, real_reward, created, shape_entry,
                   sync_log, netVars, obs_stack, next_state_tensor, max_a,
                   state_tensor, step, eps, episode, short_memory, actor_mem,
                   trainLocals, saved>>

\* model_infer, line 301.  terminated and truncated are read for the last
\* time on line 291; they are cleared here.
AffectShortMem ==
    /\ pc = "shape"
    /\ LET res == affect_short_mem(reward, short_memory, actor_mem, real_reward)
       IN  /\ short_memory' = res.short_memory
           /\ actor_mem' = res.actor_mem
           /\ real_reward' = res.real_reward
    /\ shape_entry' = [window |-> short_memory, logged |-> Len(real_reward)]
    /\ terminated' = FALSE
    /\ truncated' = FALSE
    /\ trace' = Append(trace, "affect_short_mem")
    /\ pc' = "append"
    /\ UNCHANGED <<env_log, sync_log, cfgVars, netVars, obsVars, max_a,
                   reward, done, state_tensor, step, eps, explore, noised,
                   episode, trainLocals, saved, choose_calls, created>>

\* line 309: the record of the step
MemBlock(s, a, ns, r) ==
    [state |-> s, action |-> a, next_state |-> ns, reward |-> r * RScale]

\* model_infer, lines 303-311
AppendTransition ==
    /\ pc = "append"
    /\ obs_stack' = DequeAppend(obs_stack, next_obs)
    /\ next_state_tensor' = obs_stack'
    /\ LET mem_block == MemBlock(state_tensor, max_a, next_state_tensor', reward)
       IN  /\ short_memory' = Append(short_memory, mem_block)
           /\ created' = Append(created, mem_block)
    /\ trace' = Append(trace, "append")
    /\ pc' = "flush"
    /\ UNCHANGED <<env_log, sync_log, cfgVars, netVars, stepLocals, env_obs,
                   next_obs, step, eps, explore, noised, episode, actor_mem,
                   trainLocals, saved, choose_calls, real_reward,
                   shape_entry>>

\* a flush that leaves the newest record behind (mutant of FlushCount)
FlushCount_AllButOne(sm) == Len(sm) - 1

\* line 313: the number of records flushed when the episode ends
FlushCount(sm) == Len(sm)

\* model_infer, line 313
FlushOnDone ==
    /\ pc = "flush"
    /\ LET res == IF done
                  THEN send_short_to_long_mem(FlushCount(short_memory), short_memory,
                                              actor_mem, real_reward)
                  ELSE [short_memory |-> short_memory, actor_mem |-> actor_mem,
                        real_reward |-> real_reward]
       IN  /\ short_memory' = res.short_memory
           /\ actor_mem' = res.actor_mem
           /\ real_reward' = res.real_reward
    /\ trace' = IF done THEN Append(trace, "flush") ELSE trace
    /\ pc' = "learn"
    /\ UNCHANGED <<env_log, sync_log, cfgVars, netVars, obsVars, stepLocals,
                   step, eps, explore, noised, episode, trainLocals, saved,
                   choose_calls, created, shape_entry>>

\* try_learning, lines 192-196: the checks before model_train
TryLearning ==
    /\ pc = "learn"
    /\ trace' = Append(trace, "try_learning")
    /\ pc' = IF ~LEARNING_ENABLED THEN "sync"
             ELSE IF ShouldTrain(actor_mem, step) THEN "train"
             ELSE "save"
    /\ UNCHANGED <<cfgVars, histVars, netVars, obsVars, stepLocals, step, eps,
                   explore, noised, episode, short_memory, actor_mem,
                   trainLocals, saved>>

\* model_train, lines 333-342: the batch is sampled.  Sampling more than
\* the store holds fails.
ModelTrainSample ==
    /\ pc = "train"
    /\ IF Len(actor_mem) < BATCH_SIZE
       THEN /\ pc' = "crashed"
            /\ UNCHANGED transitions
       ELSE /\ \E batch \in SampleSet(actor_mem, BATCH_SIZE) : transitions' = batch
            /\ pc' = "train_fwd"
    /\ trace' = Append(trace, "model_train")
    /\ UNCHANGED <<actor_pred_max_a, target_output>>
    /\ UNCHANGED <<cfgVars, histVars, netVars, obsVars, stepLocals, step, eps,
                   explore, noised, episode, short_memory, actor_mem, saved>>

\* model_train, lines 345-355: the online network is run on the batch's
\* states with the recorded actions.
ModelTrainForward ==
    /\ pc = "train_fwd"
    /\ LET action_batch == [i \in 1 .. BATCH_SIZE |-> transitions[i].action]
           Outcome(f) == [eps |-> f.eps, explore |-> f.explore, noised |-> f.noised]
       IN  \E o \in { Outcome(forward(eps, action_batch, TRUE, sample, a)) :
                        sample \in Samples,
                        a \in [1 .. BATCH_SIZE -> Actions] } :
              /\ eps' = o.eps
              /\ explore' = o.explore
              /\ noised' = o.noised
    /\ choose_calls' = choose_calls + 1
    /\ pc' = "target"
    /\ UNCHANGED <<trace, env_log, sync_log, cfgVars, netVars, obsVars,
                   stepLocals, step, episode, short_memory, actor_mem,
                   trainLocals, saved, real_reward, created, shape_entry>>

\* model_train, lines 359-360: the online network is run on the next states
ModelTrainNextActor ==
    /\ pc = "target"
    /\ \E f \in { forward(eps, None, TRUE, sample, a) :
                     sample \in Samples,
                     a \in [1 .. BATCH_SIZE -> Actions] } :
          /\ eps' = f.eps
          /\ explore' = f.explore
          /\ noised' = f.noised
          /\ actor_pred_max_a' = f.argmax
    /\ choose_calls' = choose_calls + 1
    /\ pc' = "target_pred"
    /\ UNCHANGED <<trace, env_log, sync_log, cfgVars, netVars, obsVars,
                   stepLocals, step, episode, short_memory, actor_mem,
                   transitions, target_output, saved, real_reward, created,
                   shape_entry>>

\* model_train, lines 363-367: the target network is run on the next
\* states, its output is read at the gather index and the target is formed.
ModelTrainNextPred ==
    /\ pc = "target_pred"
    /\ LET reward_batch == [i \in 1 .. BATCH_SIZE |-> transitions[i].reward]
           next_state_actions(index) ==
               [i \in 1 .. BATCH_SIZE |->
                   QValue("pred_model", pred_params,
                          transitions[i].next_state, index[i])]
           Outcome(f) ==
               [eps |-> f.eps, explore |-> f.explore, noised |-> f.noised,
                target_output |->
                    TargetOutput(reward_batch,
                        next_state_actions(GatherIndex(actor_pred_max_a, f.argmax)))]
       IN  \E o \in { Outcome(forward(eps, None, TRUE, sample, a)) :
                        sample \in Samples,
                        a \in [1 .. BATCH_SIZE -> Actions] } :
              /\ eps' = o.eps
              /\ explore' = o.explore
              /\ noised' = o.noised
              /\ target_output' = o.target_output
    /\ choose_calls' = choose_calls + 1
    /\ pc' = "optimize"
    /\ UNCHANGED <<trace, env_log, sync_log, cfgVars, netVars, obsVars,
                   stepLocals, step, episode, short_memory, actor_mem,
                   transitions, actor_pred_max_a, saved, real_reward, created,
                   shape_entry>>

\* model_train, lines 371-384: the loss, its gradient and the optimizer
\* step; model_train returns and its locals of lines 360-367 are gone.
ModelTrainStep ==
    /\ pc = "optimize"
    /\ \E g \in Gradients :
          LET p == OptimizerStep(actor_params, pred_params, g)
          IN  /\ actor_params' = p.actor
              /\ pred_params' = p.pred
    /\ explore' = FALSE
    /\ noised' = FALSE
    /\ actor_pred_max_a' = << >>
    /\ target_output' = << >>
    /\ pc' = "save"
    /\ UNCHANGED <<trace, cfgVars, histVars, obsVars, stepLocals, step, eps,
                   episode, short_memory, actor_mem, transitions, saved>>

\* try_learning, lines 200-201
SaveModel ==
    /\ pc = "save"
    /\ saved' = IF ShouldSave(step)
                THEN saved \cup {[step |-> step, params |-> actor_params]}
                ELSE saved
    /\ pc' = "sync"
    /\ UNCHANGED <<trace, cfgVars, histVars, netVars, obsVars, stepLocals,
                   step, eps, explore, noised, episode, short_memory,
                   actor_mem, trainLocals>>

\* lines 317 and 318 exchanged: the counter advances before the
\* synchronisation call (mutant of Sync)
Sync_IncrementFirst ==
    /\ pc = "sync"
    /\ pred_params' = soft_hard_copy(step + 1, actor_params, pred_params)
    /\ sync_log' = Append(sync_log, [step |-> step + 1, soft |-> SoftFires(step + 1),
                                     hard |-> HardFires(step + 1)])
    /\ step' = step + 1
    /\ trace' = trace \o <<"step_increment", "soft_hard_copy">>
    /\ transitions' = << >>
    /\ max_a' = 0
    /\ reward' = 0
    /\ state_tensor' = << >>
    /\ UNCHANGED <<terminated, truncated, done, actor_pred_max_a,
                   target_output>>
    /\ IF done
       THEN /\ episode' = episode + 1
            /\ pc' = IF episode + 1 < EPISODES_PER_EPOCH THEN "infer" ELSE "main"
       ELSE /\ episode' = episode
            /\ pc' = "forward"
    /\ UNCHANGED <<env_log, cfgVars, obsVars, actor_params, eps, explore,
                   noised, short_memory, actor_mem, saved, choose_calls,
                   real_reward, created, shape_entry>>

\* model_infer, lines 317-318, the loop test of line 269 and main's loop of
\* line 414: the networks are synchronised, the step counter advances, and
\* the next iteration, the next episode or the next epoch begins.  The
\* locals of the finished iteration are not read again before they are
\* reassigned; they are cleared here.
Sync ==
    /\ pc = "sync"
    /\ pred_params' = soft_hard_copy(step, actor_params, pred_params)
    /\ sync_log' = Append(sync_log, [step |-> step, soft |-> SoftFires(step),
                                     hard |-> HardFires(step)])
    /\ step' = step + 1
    /\ trace' = trace \o <<"soft_hard_copy", "step_increment">>
    /\ transitions' = << >>
    /\ max_a' = 0
    /\ reward' = 0
    /\ state_tensor' = << >>
    /\ UNCHANGED <<terminated, truncated, done, actor_pred_max_a,
                   target_output>>
    /\ IF done
       THEN /\ episode' = episode + 1
            /\ pc' = IF episode + 1 < EPISODES_PER_EPOCH THEN "infer" ELSE "main"
       ELSE /\ episode' = episode
            /\ pc' = "forward"
    /\ UNCHANGED <<env_log, cfgVars, obsVars, actor_params, eps, explore,
                   noised, short_memory, actor_mem, saved, choose_calls,
                   real_reward, created, shape_entry>>

Next ==
    \/ Main
    \/ ModelInferBegin
    \/ InferForward
    \/ EnvStep
    \/ AffectShortMem
    \/ AppendTransition
    \/ FlushOnDone
    \/ TryLearning
    \/ ModelTrainSample
    \/ ModelTrainForward
    \/ ModelTrainNextActor
    \/ ModelTrainNextPred
    \/ ModelTrainStep
    \/ SaveModel
    \/ Sync

\* The program as written
Spec == Init /\ [][Next]_vars

\* The program under either setting of DISABLE_RANDOM
SpecRandom == InitRandom /\ [][Next]_vars

\* The program under either setting of LEARNING_ENABLED
SpecLearning == InitLearning /\ [][Next]_vars

\* The program under any setting of DISABLE_RANDOM, SAVING_ENABLED and
\* LEARNING_ENABLED
SpecConfig == InitConfig /\ [][Next]_vars


---------------------------------------------------------------------------
(* Vocabulary of the properties                                            *)

\* Between two iterations of model_infer's loop: every operation of the
\* steps counted by step has completed.
AtStepBoundary == pc \in {"main", "infer", "forward"}

\* A record is identified by its next_state: its last observation is the
\* one the environment returned on the step that created the record.
Ids(seq) == [i \in DOMAIN seq |-> seq[i].next_state]

\* The last n elements of seq
LastN(seq, n) == SubSeq(seq, Len(seq) - n + 1, Len(seq))

\* The records of the real-reward log whose reward passes the admission test,
\* stated from the claim: abs(reward) strictly above MEMORY_REWARD_THRESH
PassedAdmission ==
    SelectSeq(real_reward, LAMBDA t : Abs(t.reward) > MEMORY_REWARD_THRESH * RScale)

\* The positions of model_train
TrainPcs == {"train", "train_fwd", "target", "target_pred", "optimize"}

\* The records of shape_entry.window still resident after the eviction
ResidentBefore == LastN(shape_entry.window, Len(short_memory))

---------------------------------------------------------------------------
(* C1 *)

\* C1 (as claimed): choose is called exactly once per environment step of
\* model_infer, whether or not a training step ran: after n steps it has
\* been called n times and epsilon is max(MIN_EPS, eps_start - n*EPS_DECAY).
\* The program calls choose in every forward call, and model_train makes
\* three of them (lines 345, 359, 363).
C1_ChooseOncePerStep ==
    AtStepBoundary =>
        /\ choose_calls = step - load_step
        /\ eps = Max(MIN_EPS, EPS_START - (step - load_step) * EPS_DECAY)

---------------------------------------------------------------------------
(* C2 *)

\* C2 (as claimed): when affect_short_mem finds exactly REWARD_AFFECT_PAST_N
\* records in the window, one record is flushed before the new one is
\* appended, and the window then holds REWARD_AFFECT_PAST_N records.
C2_EvictAtN ==
    (pc = "flush" /\ Len(shape_entry.window) = REWARD_AFFECT_PAST_N) =>
        /\ Len(real_reward) - shape_entry.logged = 1
        /\ Len(short_memory) = REWARD_AFFECT_PAST_N

\* C2 (amended): the eviction happens when the window holds
\* REWARD_AFFECT_PAST_N + 1 records: then exactly one record, the oldest, is
\* flushed before the new one is appended and the window again holds
\* REWARD_AFFECT_PAST_N + 1 records; a window of REWARD_AFFECT_PAST_N
\* records or fewer is not flushed and grows by one.
C2_EvictAboveN ==
    pc = "flush" =>
        IF Len(shape_entry.window) = REWARD_AFFECT_PAST_N + 1
        THEN /\ Len(real_reward) - shape_entry.logged = 1
             /\ real_reward[Len(real_reward)].next_state
                    = shape_entry.window[1].next_state
             /\ Len(short_memory) = REWARD_AFFECT_PAST_N + 1
             /\ Ids(short_memory)
                    = Tail(Ids(shape_entry.window)) \o <<next_state_tensor>>
        ELSE /\ Len(shape_entry.window) <= REWARD_AFFECT_PAST_N
             /\ Len(real_reward) = shape_entry.logged
             /\ Len(short_memory) = Len(shape_entry.window) + 1

\* C2 witness: the new record was appended after an eviction.
C2_Witness ==
    /\ pc = "flush"
    /\ Len(shape_entry.window) = REWARD_AFFECT_PAST_N + 1
    /\ Len(real_reward) = shape_entry.logged + 1

---------------------------------------------------------------------------
(* C3 *)

\* C3: the reward-shaping window never holds more than
\* REWARD_AFFECT_PAST_N + 1 records.
C3_WindowBound == Len(short_memory) <= REWARD_AFFECT_PAST_N + 1

\* C3 witness: the window holds REWARD_AFFECT_PAST_N + 1 records after
\* records have left it.
C3_Witness ==
    /\ Len(short_memory) = REWARD_AFFECT_PAST_N + 1
    /\ Len(real_reward) > 0

---------------------------------------------------------------------------
(* C4 *)

---------------------------------------------------------------------------
(* C5 *)

\* C5: every record appended to the window is either still in the window or
\* was handed to admission, exactly once and in the order of creation; and
\* once the flush of a step that ended the episode has run, the window is
\* empty.
C5_NoDropNoDuplicate ==
    /\ Ids(real_reward) \o Ids(short_memory) = Ids(created)
    /\ \A i, j \in DOMAIN created : i # j => created[i].next_state # created[j].next_state
    /\ (done /\ pc \notin {"shape", "append", "flush"}) => short_memory = << >>

\* C5 witness: an episode ended with several records in the window and all
\* of them were handed over.
C5_Witness ==
    /\ done
    /\ pc = "learn"
    /\ short_memory = << >>
    /\ Len(shape_entry.window) >= 2
    /\ Len(real_reward) = Len(created)

---------------------------------------------------------------------------
(* C6 *)

\* C6: a flushed record is in the replay store only if the absolute value of
\* its reward is strictly above MEMORY_REWARD_THRESH, and every such record
\* is pushed: while the store has not overflowed it holds exactly the
\* flushed records that pass, in order; the others leave it unchanged.
C6_AdmissionFilter ==
    /\ \A i \in DOMAIN actor_mem :
          Abs(actor_mem[i].reward) > MEMORY_REWARD_THRESH * RScale
    /\ Len(PassedAdmission) <= Capacity => actor_mem = PassedAdmission

\* C6 witness: a record was flushed and discarded while another was admitted.
C6_Witness ==
    /\ Len(actor_mem) >= 1
    /\ Len(real_reward) > Len(PassedAdmission)
    /\ Len(PassedAdmission) <= Capacity

---------------------------------------------------------------------------
(* C7 *)

\* C7: the replay store never holds more than Capacity records; once full,
\* every admitted push evicts the oldest record: the store holds the last
\* Capacity admitted records.
C7_ReplayCapacity ==
    /\ Len(actor_mem) <= Capacity
    /\ actor_mem = LastN(PassedAdmission, Min(Len(PassedAdmission), Capacity))

\* C7 witness: more records were admitted than the store holds.
C7_Witness ==
    /\ Len(PassedAdmission) > Capacity
    /\ Len(actor_mem) = Capacity

---------------------------------------------------------------------------
(* C8 *)

\* C8: across every call of choose, with exploration enabled epsilon does
\* not increase and is not below MIN_EPS; with exploration disabled choose
\* returns explore = false and leaves epsilon unchanged.  Nothing but a
\* call of choose changes epsilon.
C8_EpsilonMonotone ==
    [][ /\ eps' # eps => choose_calls' # choose_calls
        /\ choose_calls' # choose_calls =>
              IF DISABLE_RANDOM
              THEN eps' = eps /\ explore' = FALSE
              ELSE eps' <= eps /\ eps' >= MIN_EPS ]_vars

\* C8 witness: epsilon has been held at MIN_EPS by a call that would have
\* taken it below.
C8_Witness ==
    /\ ~DISABLE_RANDOM
    /\ eps = MIN_EPS
    /\ EPS_START - choose_calls * EPS_DECAY < MIN_EPS

---------------------------------------------------------------------------
(* C9 *)

\* C9: model_train runs on a step exactly when learning is enabled, the
\* replay store holds more than BATCH_SIZE records and the step is a
\* multiple of TRAIN_INTERVAL; otherwise it is skipped and nothing is
\* sampled; sampling never fails for lack of records.
C9_TrainGuard ==
    /\ pc # "crashed"
    /\ pc \in TrainPcs =>
          /\ LEARNING_ENABLED
          /\ Len(actor_mem) > BATCH_SIZE
          /\ step % TRAIN_INTERVAL = 0
    /\ pc \in {"save", "sync"} =>
          ((transitions # << >>) <=>
              (/\ LEARNING_ENABLED
               /\ Len(actor_mem) > BATCH_SIZE
               /\ step % TRAIN_INTERVAL = 0))
    /\ transitions # << >> => Len(transitions) = BATCH_SIZE

\* C9 witness: a step trained after earlier steps had skipped training.
C9_Witness ==
    /\ pc = "sync"
    /\ transitions # << >>
    /\ step >= TRAIN_INTERVAL

---------------------------------------------------------------------------
(* C10 *)

\* C10: no step of model_train changes the target network's parameters:
\* the optimizer step changes the online network's only, and after start-up
\* the target's parameters change in the synchronisation call alone.
C10_TargetFrame ==
    [][ /\ pred_params' # pred_params => pc = "sync"
        /\ pc \in TrainPcs => pred_params' = pred_params
        /\ actor_params' # actor_params => pc = "optimize" ]_vars

\* C10 witness: a training step has moved the online network away from the
\* target, and a synchronisation has then moved the target part of the way.
C10_Witness ==
    /\ pc = "forward"
    /\ pred_params # 0
    /\ pred_params # actor_params

---------------------------------------------------------------------------
(* C11 *)

\* C11: when model_train has formed its target, for every sample of the
\* batch the target is the sample's reward plus the discounted value of the
\* target network, with its current parameters, on the sample's next_state,
\* read at the arg-max action of the online network on that next_state.
C11_DoubleDQNTarget ==
    pc = "optimize" =>
        /\ Len(target_output) = BATCH_SIZE
        /\ \A i \in 1 .. BATCH_SIZE :
              /\ target_output[i].reward = transitions[i].reward
              /\ target_output[i].discounted
                    = [net |-> "pred_model", params |-> pred_params,
                       state |-> transitions[i].next_state,
                       action |-> actor_pred_max_a[i]]

\* C11 witness: a target was formed at an online arg-max that is not the
\* action recorded in the sample.
C11_Witness ==
    /\ pc = "optimize"
    /\ target_output[1].discounted.action = actor_pred_max_a[1]
    /\ actor_pred_max_a[1] # transitions[1].action

---------------------------------------------------------------------------
(* C12 *)

\* C12: soft_hard_copy is called once per environment step, the k-th call
\* with step argument load_step + k - 1, the counter never being reset; a
\* call applies the soft update exactly when its step is a multiple of
\* SOFT_COPY_INTERVAL and the hard copy exactly when it is a multiple of
\* HARD_COPY_INTERVAL, both on a common multiple.
C12_SyncSchedule ==
    /\ Len(sync_log) = step - load_step
    /\ AtStepBoundary => Len(created) = Len(sync_log)
    /\ ~AtStepBoundary => Len(sync_log) <= Len(created) + 1
    /\ Len(created) <= Len(sync_log) + 1
    /\ \A k \in DOMAIN sync_log :
          /\ sync_log[k].step = load_step + k - 1
          /\ sync_log[k].soft <=> (sync_log[k].step % SOFT_COPY_INTERVAL = 0)
          /\ sync_log[k].hard <=> (sync_log[k].step % HARD_COPY_INTERVAL = 0)

\* C12 witness: after the first call, a later call on a common multiple of
\* the two intervals applied both updates, across an episode end.
C12_Witness ==
    /\ Len(sync_log) >= 2
    /\ sync_log[1].soft /\ sync_log[1].hard
    /\ sync_log[Len(sync_log)].soft /\ sync_log[Len(sync_log)].hard
    /\ Len(real_reward) > 0

---------------------------------------------------------------------------
(* C13 *)

---------------------------------------------------------------------------
(* C14 *)

\* The scenario's environment with period P: every P-th step ends the
\* episode with a non-zero reward inside the thresholds, every other step
\* returns reward 0 and does not end it.
ScenarioRun(P) ==
    \A k \in DOMAIN env_log :
        env_log[k] = IF k % P = 0
                     THEN [reward |-> THRESH_HIGH, done |-> TRUE]
                     ELSE [reward |-> 0, done |-> FALSE]

\* The records created so far, with their rewards as shaping left them
ShapedRecords == real_reward \o short_memory

---------------------------------------------------------------------------
(* C15 *)

\* C15 (as claimed): a step ends the episode exactly when terminated or
\* truncated is set; the window is then empty once the flush has run; and
\* when the next episode begins the observation stack holds the reset
\* observation only.  The program re-initialises obs_stack in main alone
\* (lines 404-410), once per epoch: the second episode of an epoch begins
\* with the reset observation appended to the last episode's observations.
C15_EpisodeEnd ==
    /\ pc = "shape" => (done <=> (terminated \/ truncated))
    /\ (pc = "learn" /\ done) => short_memory = << >>
    /\ pc = "infer" =>
          /\ short_memory = << >>
          /\ obs_stack = FilledStack(next_obs)
          /\ next_state_tensor = obs_stack

---------------------------------------------------------------------------
(* C16 *)

\* C16: no step changes the state, action or next_state of a record; the
\* reward of a record changes in affect_short_mem alone, while the record is
\* in the window; a record that has been flushed, logged and (if admitted)
\* stored, is never changed again.
C16_RecordFrame ==
    [][ /\ \A i \in DOMAIN short_memory', j \in DOMAIN short_memory :
              short_memory'[i].next_state = short_memory[j].next_state =>
                  /\ short_memory'[i].state = short_memory[j].state
                  /\ short_memory'[i].action = short_memory[j].action
                  /\ short_memory'[i].reward # short_memory[j].reward => pc = "shape"
        /\ \A i \in DOMAIN actor_mem', j \in DOMAIN actor_mem :
              actor_mem'[i].next_state = actor_mem[j].next_state =>
                  actor_mem'[i] = actor_mem[j]
        /\ Len(real_reward') >= Len(real_reward)
        /\ SubSeq(real_reward', 1, Len(real_reward)) = real_reward
        /\ \A i \in DOMAIN real_reward', j \in DOMAIN created :
              real_reward'[i].next_state = created[j].next_state =>
                  /\ real_reward'[i].state = created[j].state
                  /\ real_reward'[i].action = created[j].action ]_vars

\* C16 witness: a large reward has just been propagated to the window while
\* the replay store already held a record.
C16_Witness ==
    /\ pc = "append"
    /\ Propagates(reward)
    /\ Len(short_memory) >= 1
    /\ short_memory[Len(short_memory)].reward
          # shape_entry.window[Len(shape_entry.window)].reward
    /\ Len(actor_mem) >= 1

---------------------------------------------------------------------------
(* C17 *)

\* The operations of one iteration in the order of lines 270-318, for an
\* iteration that ends the episode or not (d) and trains or not (t)
StepOrder(d, t) ==
    <<"forward", "env_step", "affect_short_mem", "append">>
        \o (IF d THEN <<"flush">> ELSE << >>)
        \o <<"try_learning">>
        \o (IF t THEN <<"model_train">> ELSE << >>)
        \o <<"soft_hard_copy", "step_increment">>

IsPrefix(a, b) == Len(a) <= Len(b) /\ a = SubSeq(b, 1, Len(a))

InTrace(op) == \E k \in DOMAIN trace : trace[k] = op

\* C17: the operations of an iteration run in one order: action selection,
\* environment step, shaping of the resident window, append of the new
\* record, the flush if the episode ended, the conditional training call,
\* the synchronisation call, the increment of the step counter; between two
\* iterations every operation of the earlier one has run, and the
\* environment has been stepped once more than the networks have been
\* synchronised exactly while an iteration is under way.
C17_StepOrder ==
    /\ \E d, t \in BOOLEAN : IsPrefix(trace, StepOrder(d, t))
    /\ AtStepBoundary =>
          \/ trace = << >> /\ step = load_step
          \/ \E d, t \in BOOLEAN : trace = StepOrder(d, t)
    /\ Len(env_log) = Len(sync_log)
          + (IF InTrace("env_step") /\ ~InTrace("soft_hard_copy") THEN 1 ELSE 0)
    /\ Len(created) = Len(sync_log)
          + (IF InTrace("append") /\ ~InTrace("soft_hard_copy") THEN 1 ELSE 0)
    /\ pc \in TrainPcs \cup {"learn", "save", "sync"} => (InTrace("flush") <=> done)
    /\ pc \in {"save", "sync"} => (InTrace("model_train") <=> transitions # << >>)
    /\ step = load_step + Len(sync_log)

\* C17 witness: an iteration that ended its episode and trained has run all
\* its operations, after an earlier iteration.
C17_Witness ==
    /\ pc = "infer"
    /\ trace = StepOrder(TRUE, TRUE)
    /\ step >= 2

---------------------------------------------------------------------------
(* C18 *)

\* C18: a forward call with training = True never replaces the action
\* values by noise, whatever choose returns; and the call of model_train
\* that supplies real_actions computes its next-state head from them,
\* whatever the arg-max of the action values.
C18_TrainingForward ==
    /\ pc \in {"target", "target_pred", "optimize"} => ~noised
    /\ pc = "train_fwd" =>
          \A sample \in Samples, a \in [1 .. BATCH_SIZE -> Actions] :
              LET action_batch == [i \in 1 .. BATCH_SIZE |-> transitions[i].action]
                  f == forward(eps, action_batch, TRUE, sample, a)
              IN  ~f.noised /\ f.chosen_actions = action_batch
    /\ pc \in {"target", "target_pred"} =>
          \A sample \in Samples, a \in [1 .. BATCH_SIZE -> Actions] :
              ~forward(eps, None, TRUE, sample, a).noised

\* C18 witness: choose returned explore in a forward call of model_train
\* and the action values were not replaced.
C18_Witness ==
    /\ pc = "target"
    /\ explore
    /\ ~noised

---------------------------------------------------------------------------
(* C19 *)

\* C19 (as claimed): with SAVING_ENABLED, every completed step whose step
\* count is a multiple of SAVE_INTERVAL has saved the online network under
\* that step count, whatever LEARNING_ENABLED.  try_learning returns on its
\* first line when LEARNING_ENABLED is false (line 192), before the save of
\* lines 200-201.
C19_PeriodicSave ==
    (SAVING_ENABLED /\ AtStepBoundary) =>
        \A k \in load_step .. (step - 1) :
            k % SAVE_INTERVAL = 0 => \E m \in saved : m.step = k

---------------------------------------------------------------------------
(* C20 *)

\* C20: when affect_short_mem has run, the records it may have changed are
\* at most REWARD_AFFECT_PAST_N, all created at earlier steps of the current
\* episode; the record it evicted left with the reward it had before the
\* call, and the stored records are as they were flushed; the record of the
\* step itself is appended afterwards with its raw reward.
C20_ShapingConfined ==
    /\ pc = "append" =>
          /\ Len(short_memory) <= REWARD_AFFECT_PAST_N
          /\ Len(env_log) = Len(created) + 1
          /\ \A k \in (Len(created) - Len(short_memory) + 1) .. Len(created) :
                ~env_log[k].done
          /\ Ids(short_memory) = Ids(LastN(created, Len(short_memory)))
          /\ Len(real_reward) > shape_entry.logged =>
                real_reward[Len(real_reward)] = shape_entry.window[1]
          /\ \A i \in DOMAIN actor_mem :
                \E j \in DOMAIN real_reward : actor_mem[i] = real_reward[j]
    /\ pc = "flush" =>
          /\ short_memory[Len(short_memory)].reward = reward * RScale
          /\ created[Len(created)] = short_memory[Len(short_memory)]

\* C20 witness: a large reward arrived with REWARD_AFFECT_PAST_N + 1 records
\* in the window: the oldest left as it was and the others were changed.
C20_Witness ==
    /\ pc = "append"
    /\ Propagates(reward)
    /\ Len(shape_entry.window) = REWARD_AFFECT_PAST_N + 1
    /\ Len(short_memory) = REWARD_AFFECT_PAST_N
    /\ \A k \in DOMAIN short_memory : short_memory[k].reward # ResidentBefore[k].reward

===========================================================================
